---- MODULE Spec2Model ----
\* Model of the grading-progress tracker of utas_slack_bot.py:
\* check_assignment_updates (the submission history tracker) called
\* repeatedly on one assignment, each call fed the aggregate returned by the
\* previous one, and the per-assignment body of check_course_updates that
\* turns the tracker's verdict into a progress notification.
EXTENDS Integers, Sequences, FiniteSets, TLC

\* ---------------------------------------------------------------- bounds

\* number of tracker calls explored on the assignment
MaxCalls == 3

\* the clock of the deadline runs goes from 0 to MaxTime
MaxTime == 3

\* number of tracker calls explored with two graders
MaxGraderCalls == 2
MaxHistoryCalls == 3

\* submission ids the grading API may list (submission.id), and graders
SubmissionIds == {1, 2}
Graders == {"a"}
TwoGraders == {"a", "b"}

\* ------------------------------------------------------------ Python values

\* Python's None (a grader of an unclaimed submission, a missing cache)
None == "None"

\* an optional value: NoCache is `cached=None`, Some(x) a cached aggregate
NoCache == <<>>
Some(x) == <<x>>
Val(c) == c[1]

\* str(n) of a non-negative integer: its decimal digits, most significant first
RECURSIVE str(_)
str(n) == IF n < 10 THEN <<n>> ELSE Append(str(n \div 10), n % 10)

\* int(s) of a non-empty decimal string
RECURSIVE int(_)
int(s) == IF Len(s) = 1 THEN s[1]
          ELSE 10 * int(SubSeq(s, 1, Len(s) - 1)) + s[Len(s)]

\* Python's tuple comparison a < b on two strings seen as tuples of characters
RECURSIVE TupleLess(_, _)
TupleLess(a, b) ==
    IF Len(b) = 0 THEN FALSE
    ELSE IF Len(a) = 0 THEN TRUE
    ELSE IF a[1] # b[1] THEN a[1] < b[1]
    ELSE TupleLess(Tail(a), Tail(b))

\* the sort key of max_int_num, (len(a), tuple(a)), compared as Python
\* compares tuples
KeyLess(a, b) ==
    \/ Len(a) < Len(b)
    \/ Len(a) = Len(b) /\ TupleLess(a, b)

\* max_int_num comparing the strings alone, as max(nums) would
max_int_num_lexicographic(nums, default) ==
    IF nums = {} THEN default
    ELSE CHOOSE m \in nums : \A n \in nums : ~ TupleLess(m, n)

\* max_int_num with min in place of max
max_int_num_min(nums, default) ==
    IF nums = {} THEN default
    ELSE CHOOSE m \in nums : \A n \in nums : ~ KeyLess(n, m)

\* max_int_num(nums, default=...): the maximum of string numbers under the key
\* (len(a), tuple(a)); `default` when nums is empty
max_int_num(nums, default) ==
    IF nums = {} THEN default
    ELSE CHOOSE m \in nums : \A n \in nums : ~ KeyLess(m, n)

\* ------------------------------------------------------------ the tracker

\* the sentinel of get_last_status
NO_STATUS == [status |-> "unknown", grader |-> "unknown"]

\* run_index that leaves one index out
run_index_skip(cached) ==
    IF cached = NoCache THEN str(1)
    ELSE LET runs == Val(cached).runs
         IN  IF DOMAIN runs = {} THEN str(0 + 1)
             ELSE str(int(max_int_num(DOMAIN runs, 0)) + 2)

\* run_index without the + 1
run_index_same(cached) ==
    IF cached = NoCache THEN str(1)
    ELSE LET runs == Val(cached).runs
         IN  IF DOMAIN runs = {} THEN str(0 + 1)
             ELSE str(int(max_int_num(DOMAIN runs, 0)))

\* the run index of a call: int(max_int_num(runs.keys(), default=0)) + 1, or 1
\* without cache; stringified
run_index(cached) ==
    IF cached = NoCache THEN str(1)
    ELSE LET runs == Val(cached).runs
         IN  IF DOMAIN runs = {} THEN str(0 + 1)
             ELSE str(int(max_int_num(DOMAIN runs, 0)) + 1)

\* get_last_status that takes a submission without history for unclaimed
get_last_status_unclaimed(submissions, submission_id) ==
    LET submission_data == IF submission_id \in DOMAIN submissions
                           THEN submissions[submission_id]
                           ELSE <<>>
    IN  IF DOMAIN submission_data = {}
        THEN [status |-> "unclaimed", grader |-> None]
        ELSE submission_data[max_int_num(DOMAIN submission_data, 0)]

\* get_last_status reading the first entry of the history, not the last
get_last_status_first(submissions, submission_id) ==
    LET submission_data == IF submission_id \in DOMAIN submissions
                           THEN submissions[submission_id]
                           ELSE <<>>
    IN  IF DOMAIN submission_data = {} THEN NO_STATUS
        ELSE submission_data[max_int_num_min(DOMAIN submission_data, 0)]

\* get_last_status: the record at the maximal key of the submission's
\* history, NO_STATUS when the submission has no history
get_last_status(submissions, submission_id) ==
    LET submission_data == IF submission_id \in DOMAIN submissions
                           THEN submissions[submission_id]
                           ELSE <<>>
    IN  IF DOMAIN submission_data = {} THEN NO_STATUS
        ELSE submission_data[max_int_num(DOMAIN submission_data, 0)]

\* submission_data[index] = status on a dict
DictSet(d, k, v) == [x \in DOMAIN d \cup {k} |-> IF x = k THEN v ELSE d[x]]

\* save_status that starts a fresh history for the submission
save_status_fresh(acc, index, submission_id, status) ==
    [acc EXCEPT
        !.submissions = DictSet(acc.submissions, submission_id,
                                DictSet(<<>>, index, status)),
        !.updated_status = TRUE,
        !.saved = @ \cup {submission_id}]

\* save_status: writes the new status of the submission at the run index and
\* raises updated_status (saved: the ids save_status was called for)
save_status(acc, index, submission_id, status) ==
    LET submission_data == IF submission_id \in DOMAIN acc.submissions
                           THEN acc.submissions[submission_id]
                           ELSE <<>>
    IN  [acc EXCEPT
            !.submissions = DictSet(acc.submissions, submission_id,
                                    DictSet(submission_data, index, status)),
            !.updated_status = TRUE,
            !.saved = @ \cup {submission_id}]

\* classify looking at the grader before isFinalized
classify_grader_first(submission) ==
    IF submission.grader = None THEN "unclaimed"
    ELSE IF submission.isFinalized THEN "finalized"
    ELSE "draft"

\* the class of a live submission (lines 204-215)
classify(submission) ==
    IF submission.isFinalized THEN "finalized"
    ELSE IF submission.grader # None THEN "draft"
    ELSE "unclaimed"

\* live_step that compares the status only, not the grader
live_step_status_only(acc, index, submission) ==
    LET submission_id == str(submission.id)
        last_status == get_last_status(acc.submissions, submission_id)
        status == classify(submission)
        current_status == [status |-> status, grader |-> submission.grader]
        counted ==
            [acc EXCEPT
                !.deleted = @ \ {submission_id},
                !.num_total = @ + 1,
                !.num_finalized = IF status = "finalized" THEN @ + 1 ELSE @,
                !.num_drafts = IF status = "draft" THEN @ + 1 ELSE @,
                !.num_unclaimed = IF status = "unclaimed" THEN @ + 1 ELSE @,
                !.graders_finalized =
                    IF status = "finalized" /\ last_status.status # "finalized"
                    THEN @ \cup {submission.grader} ELSE @]
    IN  IF last_status.status = current_status.status THEN counted
        ELSE save_status(counted, index, submission_id, current_status)

\* live_step that reports the grader of every finalized submission it writes
live_step_graders_on_write(acc, index, submission) ==
    LET submission_id == str(submission.id)
        last_status == get_last_status(acc.submissions, submission_id)
        status == classify(submission)
        current_status == [status |-> status, grader |-> submission.grader]
        counted ==
            [acc EXCEPT
                !.deleted = @ \ {submission_id},
                !.num_total = @ + 1,
                !.num_finalized = IF status = "finalized" THEN @ + 1 ELSE @,
                !.num_drafts = IF status = "draft" THEN @ + 1 ELSE @,
                !.num_unclaimed = IF status = "unclaimed" THEN @ + 1 ELSE @,
                !.graders_finalized =
                    IF status = "finalized" /\ last_status # current_status
                    THEN @ \cup {submission.grader} ELSE @]
    IN  IF last_status = current_status THEN counted
        ELSE save_status(counted, index, submission_id, current_status)

\* one iteration of the loop over assignment.list_submissions()
live_step(acc, index, submission) ==
    LET submission_id == str(submission.id)
        last_status == get_last_status(acc.submissions, submission_id)
        status == classify(submission)
        current_status == [status |-> status, grader |-> submission.grader]
        counted ==
            [acc EXCEPT
                !.deleted = @ \ {submission_id},
                !.num_total = @ + 1,
                !.num_finalized = IF status = "finalized" THEN @ + 1 ELSE @,
                !.num_drafts = IF status = "draft" THEN @ + 1 ELSE @,
                !.num_unclaimed = IF status = "unclaimed" THEN @ + 1 ELSE @,
                !.graders_finalized =
                    IF status = "finalized" /\ last_status.status # "finalized"
                    THEN @ \cup {submission.grader} ELSE @]
    IN  IF last_status = current_status THEN counted
        ELSE save_status(counted, index, submission_id, current_status)

RECURSIVE live_loop(_, _, _)
live_loop(acc, index, list) ==
    IF Len(list) = 0 THEN acc
    ELSE live_loop(live_step(acc, index, Head(list)), index, Tail(list))

\* deleted_step that records no deletion
deleted_step_never(acc, index, submission_id) == acc

\* deleted_step without the comparison with the last status
deleted_step_always(acc, index, submission_id) ==
    IF submission_id \notin DOMAIN acc.submissions THEN acc
    ELSE save_status(acc, index, submission_id,
                     [status |-> "deleted", grader |-> None])

\* one iteration of the loop that marks the remaining ids as deleted
deleted_step(acc, index, submission_id) ==
    IF submission_id \notin DOMAIN acc.submissions THEN acc
    ELSE LET last_status == get_last_status(acc.submissions, submission_id)
             current_status == [status |-> "deleted", grader |-> None]
         IN  IF last_status = current_status THEN acc
             ELSE save_status(acc, index, submission_id, current_status)

RECURSIVE deleted_loop(_, _, _)
deleted_loop(acc, index, ids) ==
    IF ids = {} THEN acc
    ELSE LET submission_id == CHOOSE x \in ids : TRUE
         IN  deleted_loop(deleted_step(acc, index, submission_id), index,
                          ids \ {submission_id})

\* log_run that logs the run whether or not a status was saved
log_run_always(runs, index, timestamp_key, updated_status) ==
    DictSet(runs, index, timestamp_key)

\* runs after the loops: runs[index] = timestamp_key if a status was saved
log_run(runs, index, timestamp_key, updated_status) ==
    IF updated_status THEN DictSet(runs, index, timestamp_key) ELSE runs

CountKeys == {"total", "finalized", "drafts", "unclaimed"}

\* the changed verdict with the first run tested before everything else
is_changed_first_run(updated_status, data, cached) ==
    IF cached = NoCache THEN TRUE
    ELSE IF updated_status THEN TRUE
    ELSE \E key \in CountKeys : Val(cached)[key] # data[key]

\* the changed verdict of check_assignment_updates
is_changed(updated_status, data, cached) ==
    IF updated_status THEN TRUE
    ELSE IF data.total = 0 \/ data.finalized = 0 THEN FALSE
    ELSE IF cached = NoCache THEN TRUE
    ELSE \E key \in CountKeys : Val(cached)[key] # data[key]

\* check_assignment_updates(assignment, timestamp_key, cached), where live is
\* assignment.list_submissions(); returns changed, data and, for the record,
\* the run index and the ids whose status was saved
check_assignment_updates(live, timestamp_key, cached) ==
    LET submissions == IF cached = NoCache THEN <<>> ELSE Val(cached).submissions
        runs == IF cached = NoCache THEN <<>> ELSE Val(cached).runs
        index == run_index(cached)
        acc0 == [submissions |-> submissions,
                 updated_status |-> FALSE,
                 saved |-> {},
                 deleted |-> DOMAIN submissions,
                 num_total |-> 0, num_finalized |-> 0,
                 num_drafts |-> 0, num_unclaimed |-> 0,
                 graders_finalized |-> {}]
        acc1 == live_loop(acc0, index, live)
        acc2 == deleted_loop(acc1, index, acc1.deleted)
        data == [total |-> acc2.num_total,
                 finalized |-> acc2.num_finalized,
                 drafts |-> acc2.num_drafts,
                 unclaimed |-> acc2.num_unclaimed,
                 runs |-> log_run(runs, index, timestamp_key,
                                  acc2.updated_status),
                 submissions |-> acc2.submissions,
                 graders_finalized |-> acc2.graders_finalized]
    IN  [changed |-> is_changed(acc2.updated_status, data, cached),
         data |-> data,
         index |-> index,
         saved |-> acc2.saved]

\* ------------------------------------------------- the notification path

\* _build_notification_msg raises on a grader that is None
\* (grader[:-len('@princeton.edu')])
build_raises(graders_finalized) == None \in graders_finalized

\* check_course_updates that notifies whatever the tracker returned
notify_outcome_always(assignment_changed, graders_finalized) ==
    IF build_raises(graders_finalized) THEN "build_raised"
    ELSE "sent"

\* the body of check_course_updates for one assignment after the tracker
\* returned: nothing when not changed, else build the message and hand it to
\* send_slack_msg ("sent": chat_postMessage was called, whatever it answered)
notify_outcome(assignment_changed, graders_finalized) ==
    IF ~ assignment_changed THEN "none"
    ELSE IF build_raises(graders_finalized) THEN "build_raised"
    ELSE "sent"

\* the aggregate stored with its graders_finalized field left in
pop_graders_finalized_kept(data) == data

\* assignment_data.pop('graders_finalized')
pop_graders_finalized(data) ==
    [total |-> data.total, finalized |-> data.finalized,
     drafts |-> data.drafts, unclaimed |-> data.unclaimed,
     runs |-> data.runs, submissions |-> data.submissions]

\* ------------------------------------------------------------ inputs

LiveSubmission ==
    [id : SubmissionIds, isFinalized : BOOLEAN, grader : Graders \cup {None}]

\* what list_submissions() may return: submissions with distinct ids, listed
\* by ascending id
LiveLists ==
    {l \in UNION {[1..n -> LiveSubmission] : n \in 0..Cardinality(SubmissionIds)} :
        \A i, j \in 1..Len(l) : i < j => l[i].id < l[j].id}

\* the same with two graders
LiveListsTwoGraders ==
    {l \in UNION {[1..n -> [id : SubmissionIds, isFinalized : BOOLEAN,
                            grader : TwoGraders \cup {None}]] :
                    n \in 0..Cardinality(SubmissionIds)} :
        \A i, j \in 1..Len(l) : i < j => l[i].id < l[j].id}

\* ------------------------------------------------------------ state

VARIABLES
    cached,             \* the assignment's aggregate in the snapshot (NoCache: none)
    ncalls,             \* calls made so far; now() of a call is its number
    nwrites,            \* calls so far that saved at least one status
    prior,              \* the cached argument of the last call
    live,               \* the live submissions of the last call
    prev_live,          \* the live submissions of the call before it
    result,             \* what the last call returned
    notify,             \* what check_course_updates did with the verdict
    raised,             \* the calls whose message builder raised
    dl,                 \* the deadline message of one assignment over the runs
    run,                \* main over the configured courses, run after run
    race,               \* two runs of main on one snapshot file
    lookup              \* max_int_num on a set of keys

trackervars == <<cached, ncalls, nwrites, prior, live, prev_live, result,
                 notify, raised>>
vars == <<trackervars, dl, run, race, lookup>>

NoResult == [changed |-> FALSE,
             data |-> [total |-> 0, finalized |-> 0, drafts |-> 0,
                       unclaimed |-> 0, runs |-> <<>>, submissions |-> <<>>,
                       graders_finalized |-> {}],
             index |-> <<>>, saved |-> {}]

\* no tracker call yet
TrackerIdle ==
    /\ cached = NoCache
    /\ ncalls = 0
    /\ nwrites = 0
    /\ prior = NoCache
    /\ live = <<>>
    /\ prev_live = <<>>
    /\ result = NoResult
    /\ notify = "none"
    /\ raised = {}

\* no deadline configured, no run yet
NoDeadlineRun == [at |-> 0, before |-> <<>>, passed |-> FALSE,
                  attempted |-> FALSE, sent |-> FALSE, error |-> FALSE,
                  changed |-> FALSE, persisted |-> FALSE, stamp |-> <<>>]
DeadlineIdle == [deadline |-> 0, time |-> 0, stored |-> <<>>, nruns |-> 0,
                 nsent |-> 0, last |-> NoDeadlineRun]

\* main not started yet: no snapshot file, empty error log
RunIdle == [n |-> 0, pc |-> "idle", env |-> <<>>, store |-> <<>>,
            data |-> <<>>, changed |-> FALSE, errors |-> <<>>,
            ci |-> 0, ai |-> 0, cdata |-> <<>>, cchanged |-> FALSE,
            cerrors |-> <<>>, events |-> <<>>, logged |-> <<>>]

\* no run on the shared snapshot yet
RaceProcIdle == [pc |-> "idle", number |-> 0, base |-> <<>>, live |-> <<>>,
                 data |-> <<>>, changed |-> FALSE, outcome |-> "none",
                 prev |-> <<>>]
RaceIdle == [store |-> <<>>, file |-> "whole",
             procs |-> <<RaceProcIdle, RaceProcIdle>>,
             started |-> 0, overlapped |-> FALSE, posted |-> <<>>,
             duplicate |-> FALSE, written |-> {}, last |-> <<>>]

\* max_int_num not applied yet, no key
LookupIdle == [keys |-> {}, applied |-> FALSE, max |-> 0, index |-> <<>>,
               last |-> NO_STATUS, writes |-> 0]

Init ==
    /\ TrackerIdle
    /\ dl = DeadlineIdle
    /\ run = RunIdle
    /\ race = RaceIdle
    /\ lookup = LookupIdle

\* one poll of the assignment, a run of main on a config of one course with
\* one assignment: check_assignment_updates on the live list and the
\* snapshot's aggregate with now() as the timestamp label, then the
\* notification. The returned aggregate reaches the next poll through
\* write_data only: main writes it when the assignment changed, and writes
\* nothing when the message builder raised, the exception leaving main
Poll(l) ==
    /\ result' = check_assignment_updates(l, ncalls + 1, cached)
    /\ notify' = notify_outcome(result'.changed,
                                result'.data.graders_finalized)
    /\ cached' = IF notify' = "build_raised" THEN cached
                 ELSE IF result'.changed
                 THEN Some(pop_graders_finalized(result'.data))
                 ELSE cached
    /\ prior' = cached
    /\ live' = l
    /\ prev_live' = live
    /\ ncalls' = ncalls + 1
    /\ nwrites' = IF result'.saved # {} THEN nwrites + 1 ELSE nwrites
    /\ raised' = IF notify' = "build_raised" THEN raised \cup {ncalls + 1}
                 ELSE raised
    /\ UNCHANGED <<dl, run, race, lookup>>

Track(l) ==
    /\ ncalls < MaxCalls
    /\ Poll(l)

Next == \E l \in LiveLists : Track(l)

Spec == Init /\ [][Next]_vars

\* the polls of an assignment graded by two graders
TrackGraders(l) ==
    /\ ncalls < MaxGraderCalls
    /\ Poll(l)

NextGraders == \E l \in LiveListsTwoGraders : TrackGraders(l)

SpecGraders == Init /\ [][NextGraders]_vars

\* the polls of an assignment whose histories are followed call after call
TrackHistory(l) ==
    /\ ncalls < MaxHistoryCalls
    /\ Poll(l)

NextHistory == \E l \in LiveLists : TrackHistory(l)

SpecHistory == Init /\ [][NextHistory]_vars

\* ------------------------------------------------- the deadline message

\* sent_deadline_message of an aggregate: NoStamp is null, Some(t) a timestamp
NoStamp == <<>>

\* read_config.py, _validate_config_course: the passed_deadline flag of an
\* assignment with a deadline, computed when the config is read
passed_deadline(deadline_utc, now_dt) == deadline_utc >= now_dt

\* spec 4.1 step 1: the tracker carries sent_deadline_message over
carry_sent_deadline_message(stored) == stored

\* spec 4.2 step 5: with the deadline crossed (passed_deadline) and no
\* deadline message sent yet, build and send the deadline message; on
\* success stamp sent_deadline_message = now() and mark the course changed;
\* a build or delivery failure is an error and sets no stamp
deadline_step(sent_deadline_message, is_passed, build_ok, delivery_ok, now) ==
    LET attempted == is_passed /\ sent_deadline_message = NoStamp
        sent == attempted /\ build_ok /\ delivery_ok
    IN  [attempted |-> attempted,
         sent |-> sent,
         error |-> attempted /\ ~ sent,
         changed |-> sent,
         stamp |-> IF sent THEN Some(now) ELSE sent_deadline_message]

\* the configured deadline is any time of the clock; the first run may come
\* before or after it
InitDeadline ==
    /\ TrackerIdle
    /\ dl \in {[DeadlineIdle EXCEPT !.deadline = d] : d \in 0..MaxTime}
    /\ run = RunIdle
    /\ race = RaceIdle
    /\ lookup = LookupIdle

\* time passes between two runs
Tick ==
    /\ dl.time < MaxTime
    /\ dl' = [dl EXCEPT !.time = @ + 1]
    /\ UNCHANGED <<trackervars, run, race, lookup>>

\* one run over the assignment: the config is read (passed_deadline), the
\* tracker returns its verdict and carries the stamp, the deadline step
\* runs, and the snapshot is written if the course changed
DeadlineRun(tracker_changed, build_ok, delivery_ok) ==
    /\ dl.nruns < MaxTime + 2
    /\ LET is_passed == passed_deadline(dl.deadline, dl.time)
           step == deadline_step(carry_sent_deadline_message(dl.stored),
                                 is_passed, build_ok, delivery_ok, dl.time)
           course_changed == tracker_changed \/ step.changed
       IN  dl' = [dl EXCEPT
                    !.stored = IF course_changed THEN step.stamp ELSE @,
                    !.nruns = @ + 1,
                    !.nsent = IF step.sent THEN @ + 1 ELSE @,
                    !.last = [at |-> dl.time,
                              before |-> dl.stored,
                              passed |-> is_passed,
                              attempted |-> step.attempted,
                              sent |-> step.sent,
                              error |-> step.error,
                              changed |-> course_changed,
                              persisted |-> course_changed,
                              stamp |-> step.stamp]]
    /\ UNCHANGED <<trackervars, run, race, lookup>>

NextDeadline ==
    \/ Tick
    \/ \E tracker_changed, build_ok, delivery_ok \in BOOLEAN :
          DeadlineRun(tracker_changed, build_ok, delivery_ok)

SpecDeadline == InitDeadline /\ [][NextDeadline]_vars

\* ------------------------------------------------------- one run of main

MaxMainRuns == 2

\* the configuration: config.items() in file order, and the assignments of
\* each course in file order
Courses == <<"c1", "c2">>
Assignments == [c1 |-> <<"hw1", "hw2">>, c2 |-> <<"hw1">>]
CourseSet == {Courses[i] : i \in 1..Len(Courses)}

\* what list_submissions() returns for an assignment of a run: at most one
\* submission, finalized
RunLiveLists ==
    {l \in LiveLists : \A i \in 1..Len(l) : l[i].id = 1 /\ l[i].isFinalized}

\* the environment variables main reads, in the order of its loop
SecretNames == <<"CODEPOST_API_KEY", "SLACK_TOKEN", "DECRYPTION_KEY">>
SecretSet == {SecretNames[i] : i \in 1..Len(SecretNames)}

\* the most invalid channels, and the most invalid sources, of a config file
MaxInvalidEntries == 2

\* the answers of Slack to the request that validates the token
TokenChecks == {"ok", "invalid_auth", "error"}

\* the config file as read_config_file finds it: in order; missing; there
\* but not YAML or not UTF-8 (yaml.safe_load or read_text raises); YAML
\* whose top level, channels or sources has the wrong type
ConfigFiles == {"ok", "missing", "unparseable", "malformed"}

\* main stops at the first check that fails: what comes after it in main is
\* not read by the run and is written as if it were in order
StopsAtFirstFailure(e) ==
    LET credentials == e.unset = {}
        config == credentials /\ e.key /\ e.token = "ok"
        channels == config /\ e.config_file = "ok"
        sources == channels /\ ~ e.channels_raise /\ e.invalid_channels = 0
        crypto == sources /\ ~ e.sources_raise /\ e.invalid_sources = 0
        snapshot == crypto /\ e.fernet
    IN  /\ ~ credentials => e.key /\ e.token = "ok"
        /\ ~ config => e.config_file = "ok"
        /\ ~ channels => ~ e.channels_raise /\ e.invalid_channels = 0
        /\ ~ sources => ~ e.sources_raise /\ e.invalid_sources = 0
        /\ ~ crypto => e.fernet
        /\ ~ snapshot => e.undecryptable = {}

\* what a run finds around it: the environment variables that are unset or
\* empty, the codePost key (valid or not), the answer of Slack to the token
\* check, the config file, whether Slack answers a channel check with an
\* error _validate_slack_channels re-raises, the number of invalid channels
\* (an id that is no string, an id Slack rejects), whether a source has a
\* date in DATE_FMT that datetime cannot shift by a day or convert to UTC
\* (_validate_config_course raises OverflowError), the number of invalid
\* sources, whether DECRYPTION_KEY is a Fernet key, and the snapshot files
\* the key cannot decrypt
Env ==
    {e \in [unset : SUBSET SecretSet, key : BOOLEAN, token : TokenChecks,
            config_file : ConfigFiles, channels_raise : BOOLEAN,
            invalid_channels : 0..MaxInvalidEntries,
            sources_raise : BOOLEAN,
            invalid_sources : 0..MaxInvalidEntries, fernet : BOOLEAN,
            undecryptable : SUBSET CourseSet] : StopsAtFirstFailure(e)}

\* an error string and an observable effect of the run
Err(kind, c, a) == [kind |-> kind, c |-> c, a |-> a]
Ev(e, c, a, x) == [e |-> e, c |-> c, a |-> a, x |-> x]

\* d.get(k, None)
DictGet(d, k) == IF k \in DOMAIN d THEN Some(d[k]) ELSE NoCache

\* read_cached_data: the files of the configured courses; the first one that
\* does not decrypt makes it return None and one error
read_cached_data(store, undecryptable) ==
    IF DOMAIN store \cap undecryptable # {}
    THEN [data |-> NoCache, errors |-> <<Err("decrypt", "", "")>>]
    ELSE [data |-> Some(store), errors |-> <<>>]

\* n errors of one kind
Errs(kind, n) == [i \in 1..n |-> Err(kind, "", "")]

\* read_config_file: one error for a file that is missing; yaml.safe_load
\* and read_text raise on a file that does not parse; one error for a
\* malformed top level; then the channels, where an error of Slack that is
\* neither invalid_channel nor not_in_channel is re-raised, and one error per
\* invalid channel makes it return; then the sources, where a date out of
\* the range of datetime raises in _validate_config_course, and one error
\* per invalid source
read_config_file(env) ==
    IF env.config_file = "missing"
    THEN [errors |-> Errs("config", 1), raised |-> FALSE]
    ELSE IF env.config_file = "unparseable"
    THEN [errors |-> <<>>, raised |-> TRUE]
    ELSE IF env.config_file = "malformed"
    THEN [errors |-> Errs("config", 1), raised |-> FALSE]
    ELSE IF env.channels_raise
    THEN [errors |-> <<>>, raised |-> TRUE]
    ELSE IF env.invalid_channels > 0
    THEN [errors |-> Errs("config", env.invalid_channels), raised |-> FALSE]
    ELSE IF env.sources_raise
    THEN [errors |-> <<>>, raised |-> TRUE]
    ELSE [errors |-> Errs("config", env.invalid_sources), raised |-> FALSE]

\* main up to process_courses: one error per environment variable that is
\* missing; then the two credentials, checked together, where an error of
\* Slack other than invalid_auth is re-raised; then the config; then
\* Fernet(key), which raises on a malformed key; then the snapshot. A check
\* that leaves errors makes main save them and return; an exception leaves
\* main with nothing saved by it
main_startup(env, store) ==
    LET secrets == Errs("secret", Cardinality(env.unset))
        creds == (IF env.key THEN <<>> ELSE <<Err("codepost_key", "", "")>>)
                 \o (IF env.token = "invalid_auth"
                     THEN <<Err("slack_token", "", "")>> ELSE <<>>)
        config == read_config_file(env)
        rd == read_cached_data(store, env.undecryptable)
        returns(errors) == [errors |-> errors, raised |-> FALSE,
                            read |-> FALSE, data |-> NoCache]
        raises == [errors |-> <<>>, raised |-> TRUE,
                   read |-> FALSE, data |-> NoCache]
    IN  IF secrets # <<>> THEN returns(secrets)
        ELSE IF env.token = "error" THEN raises
        ELSE IF creds # <<>> THEN returns(creds)
        ELSE IF config.raised THEN raises
        ELSE IF config.errors # <<>> THEN returns(config.errors)
        ELSE IF ~ env.fernet THEN raises
        ELSE [errors |-> rd.errors, raised |-> FALSE,
              read |-> TRUE, data |-> rd.data]

\* the date-range guard of check_course_updates that skips nothing
skips_never(valid_date_range) == FALSE

\* if not assignment['valid_date_range']: continue
skips(valid_date_range) == ~ valid_date_range

\* the write guard of main that always writes
should_write_always(changed) == TRUE

\* if changed: write_data(crypto, data)
should_write(changed) == changed

\* the keys of process_courses' data in dict order: the courses read from
\* the snapshot, then the courses added by this run
data_keys(store, data) ==
    SelectSeq(Courses, LAMBDA c : c \in DOMAIN store)
    \o SelectSeq(Courses, LAMBDA c : c \in DOMAIN data \ DOMAIN store)

\* write_data that writes no file
write_data_nothing(store, data) == store

\* write_data: one file per course of data
write_data(store, data) ==
    [c \in DOMAIN store \cup DOMAIN data |->
        IF c \in DOMAIN data THEN data[c] ELSE store[c]]

WriteEvents(keys) == [i \in 1..Len(keys) |-> Ev("write", keys[i], "", "")]

RunOver == run.pc \in {"idle", "done", "aborted", "crashed"}

\* main from its start to the call of process_courses; an exception is
\* caught by the handler of __main__, which saves one error and re-raises
StartRun(env) ==
    /\ RunOver
    /\ run.n < MaxMainRuns
    /\ LET st == main_startup(env, run.store)
           read == IF st.read THEN <<Ev("read", "", "", "")>> ELSE <<>>
       IN  run' = IF st.raised
                  THEN [RunIdle EXCEPT
                          !.n = run.n + 1, !.pc = "crashed", !.env = env,
                          !.store = run.store,
                          !.events = <<Ev("log", "", "", "")>>,
                          !.logged = <<Err("uncaught", "", "")>>]
                  ELSE IF st.errors # <<>>
                  THEN [RunIdle EXCEPT
                          !.n = run.n + 1, !.pc = "aborted", !.env = env,
                          !.store = run.store,
                          !.events = read \o <<Ev("log", "", "", "")>>,
                          !.logged = st.errors]
                  ELSE [RunIdle EXCEPT
                          !.n = run.n + 1, !.pc = "courses", !.env = env,
                          !.store = run.store,
                          !.data = Val(st.data), !.ci = 1,
                          !.events = read]
    /\ UNCHANGED <<trackervars, dl, race, lookup>>

\* process_courses, one course: list_available, then check_course_updates
\* up to its loop
EnterCourse(found) ==
    /\ run.pc = "courses"
    /\ run.ci <= Len(Courses)
    /\ LET c == Courses[run.ci]
           course_cache == DictGet(run.data, c)
       IN  run' = IF ~ found
                  THEN [run EXCEPT
                          !.errors = Append(@, Err("course_not_found", c, "")),
                          !.events = @ \o <<Ev("lookup", c, "", "none"),
                                            Ev("error", c, "", "course_not_found")>>,
                          !.ci = @ + 1]
                  ELSE [run EXCEPT
                          !.cdata = IF course_cache = NoCache THEN <<>>
                                    ELSE Val(course_cache),
                          !.cchanged = FALSE,
                          !.cerrors = <<>>,
                          !.ai = 1,
                          !.pc = "assignments",
                          !.events = Append(@, Ev("lookup", c, "", "found"))]
    /\ UNCHANGED <<trackervars, dl, race, lookup>>

\* check_course_updates, one assignment of the loop; the valid_date_range flag
\* of the config is read here, its only use. An exception of the message
\* builder leaves main: the handler of __main__ saves one error and re-raises
ProcessAssignment(valid_date_range, present, l, slack_ok) ==
    /\ run.pc = "assignments"
    /\ run.ai <= Len(Assignments[Courses[run.ci]])
    /\ LET c == Courses[run.ci]
           a == Assignments[c][run.ai]
           r == check_assignment_updates(l, run.n, DictGet(run.cdata, a))
           stored == DictSet(run.cdata, a, pop_graders_finalized(r.data))
           outcome == notify_outcome(r.changed, r.data.graders_finalized)
           iter == Ev("iter", c, a, IF valid_date_range THEN "valid"
                                    ELSE "out_of_range")
           tracked == <<iter, Ev("fetch", c, a, ""),
                        Ev("track", c, a,
                           IF r.changed THEN "changed" ELSE "same")>>
       IN  run' =
             IF skips(valid_date_range)
             THEN [run EXCEPT
                     !.ai = @ + 1,
                     !.events = Append(@, iter)]
             ELSE IF ~ present
             THEN [run EXCEPT
                     !.ai = @ + 1,
                     !.cerrors = Append(@, Err("assignment_missing", c, a)),
                     !.events = @ \o <<iter, Ev("error", c, a,
                                                "assignment_missing")>>]
             ELSE IF outcome = "none"
             THEN [run EXCEPT
                     !.ai = @ + 1,
                     !.cdata = stored,
                     !.events = @ \o tracked]
             ELSE IF outcome = "build_raised"
             THEN [run EXCEPT
                     !.pc = "crashed",
                     !.cdata = stored,
                     !.cchanged = TRUE,
                     !.events = @ \o tracked
                                  \o <<Ev("build", c, a, "raised"),
                                       Ev("log", "", "", "")>>,
                     !.logged = <<Err("uncaught", "", "")>>]
             ELSE [run EXCEPT
                     !.ai = @ + 1,
                     !.cdata = stored,
                     !.cchanged = TRUE,
                     !.cerrors = IF slack_ok THEN @
                                 ELSE Append(@, Err("slack", c, a)),
                     !.events = @ \o tracked
                                  \o <<Ev("notify", c, a,
                                          IF slack_ok THEN "ok" ELSE "failed")>>
                                  \o (IF slack_ok THEN <<>>
                                      ELSE <<Ev("error", c, a, "slack")>>)]
    /\ UNCHANGED <<trackervars, dl, race, lookup>>

\* LeaveCourse that stores the course data under every course
LeaveCourse_every_course ==
    /\ run.pc = "assignments"
    /\ run.ai > Len(Assignments[Courses[run.ci]])
    /\ run' = [run EXCEPT
                 !.errors = @ \o run.cerrors,
                 !.data = [c \in CourseSet |-> run.cdata],
                 !.changed = @ \/ run.cchanged,
                 !.ci = @ + 1,
                 !.pc = "courses"]
    /\ UNCHANGED <<trackervars, dl, race, lookup>>

\* check_course_updates returns; process_courses takes its three results
LeaveCourse ==
    /\ run.pc = "assignments"
    /\ run.ai > Len(Assignments[Courses[run.ci]])
    /\ run' = [run EXCEPT
                 !.errors = @ \o run.cerrors,
                 !.data = DictSet(@, Courses[run.ci], run.cdata),
                 !.changed = @ \/ run.cchanged,
                 !.ci = @ + 1,
                 !.pc = "courses"]
    /\ UNCHANGED <<trackervars, dl, race, lookup>>

\* process_courses returns; main saves the errors and writes the snapshot
FinishRun ==
    /\ run.pc = "courses"
    /\ run.ci > Len(Courses)
    /\ LET write == should_write(run.changed)
       IN  run' = [run EXCEPT
                     !.pc = "done",
                     !.logged = run.errors,
                     !.store = IF write THEN write_data(@, run.data) ELSE @,
                     !.events = @ \o (IF run.errors # <<>>
                                      THEN <<Ev("log", "", "", "")>> ELSE <<>>)
                                  \o (IF write
                                      THEN WriteEvents(data_keys(run.store,
                                                                 run.data))
                                      ELSE <<>>)]
    /\ UNCHANGED <<trackervars, dl, race, lookup>>

NextRun ==
    \/ \E env \in Env : StartRun(env)
    \/ \E found \in BOOLEAN : EnterCourse(found)
    \/ \E valid_date_range, present, slack_ok \in BOOLEAN :
          \E l \in RunLiveLists :
             ProcessAssignment(valid_date_range, present, l, slack_ok)
    \/ LeaveCourse
    \/ FinishRun

SpecRun == Init /\ [][NextRun]_vars

\* ------------------------------------------- two runs on one snapshot

MaxRacingRuns == 2

\* the two processes that run main on the same data folder; their config has
\* one course with one assignment
Processes == {1, 2}
RaceCourse == "c1"
RaceAssignment == "hw1"

\* what list_submissions() returns to these runs: at most one submission
RaceLiveLists == {l \in LiveLists : \A i \in 1..Len(l) : l[i].id = 1}

\* the run-log entries <<index, timestamp label>> the run added
AddedRuns(proc) ==
    LET runs == proc.data[RaceCourse][RaceAssignment].runs
    IN  {<<k, proc.number>> : k \in {j \in DOMAIN runs : runs[j] = proc.number}}

\* d without the key k
DictRemove(d, k) == [j \in DOMAIN d \ {k} |-> d[j]]

\* the file of the course is there and does not decrypt: it has no bytes
\* (opened for writing, nothing written yet) or the bytes of two writers
Unreadable == IF race.file = "whole" THEN {} ELSE {RaceCourse}

\* another process is between its read and the end of its write
OtherActive(p) ==
    \E q \in Processes \ {p} :
        race.procs[q].pc \in {"read", "processed", "writing"}

\* main up to process_courses: a process reads the snapshot; now() of the run
\* is its number. A file that does not decrypt makes read_cached_data return
\* an error: main saves it and returns
RaceRead(p) ==
    /\ race.procs[p].pc \in {"idle", "done", "aborted"}
    /\ race.started < MaxRacingRuns
    /\ LET files == [c \in DOMAIN race.store \cup Unreadable |->
                        IF c \in Unreadable THEN <<>> ELSE race.store[c]]
           rd == read_cached_data(files, Unreadable)
       IN  race' = IF rd.errors # <<>>
                   THEN [race EXCEPT
                           !.procs[p] = [RaceProcIdle EXCEPT
                                           !.pc = "aborted",
                                           !.number = race.started + 1,
                                           !.outcome = "aborted",
                                           !.prev = race.last],
                           !.started = @ + 1,
                           !.overlapped = @ \/ OtherActive(p),
                           !.last = <<[live |-> <<>>, outcome |-> "aborted",
                                       persisted |-> FALSE]>>]
                   ELSE [race EXCEPT
                           !.procs[p] = [RaceProcIdle EXCEPT
                                           !.pc = "read",
                                           !.number = race.started + 1,
                                           !.base = Val(rd.data),
                                           !.data = Val(rd.data),
                                           !.prev = race.last],
                           !.started = @ + 1,
                           !.overlapped = @ \/ OtherActive(p)]
    /\ UNCHANGED <<trackervars, dl, run, lookup>>

\* process_courses of a process: the tracker on the snapshot it read, then
\* the notification; a message builder that raises ends the run
RaceProcess(p, l, slack_ok) ==
    /\ race.procs[p].pc = "read"
    /\ LET proc == race.procs[p]
           course_cache == DictGet(proc.base, RaceCourse)
           cdata == IF course_cache = NoCache THEN <<>> ELSE Val(course_cache)
           r == check_assignment_updates(l, proc.number,
                                         DictGet(cdata, RaceAssignment))
           built == notify_outcome(r.changed, r.data.graders_finalized)
           outcome == IF built = "sent" /\ ~ slack_ok THEN "failed" ELSE built
           posts == outcome \in {"sent", "failed"}
           data == DictSet(proc.base, RaceCourse,
                           DictSet(cdata, RaceAssignment,
                                   pop_graders_finalized(r.data)))
       IN  race' = [race EXCEPT
                      !.procs[p] = [proc EXCEPT
                                      !.pc = IF outcome = "build_raised"
                                             THEN "done" ELSE "processed",
                                      !.live = l,
                                      !.data = data,
                                      !.changed = r.changed,
                                      !.outcome = outcome],
                      !.posted = IF posts THEN Append(@, <<proc.base, l>>)
                                 ELSE @,
                      !.duplicate =
                          @ \/ (posts /\ \E i \in 1..Len(race.posted) :
                                            race.posted[i] = <<proc.base, l>>),
                      !.last = IF outcome = "build_raised"
                               THEN <<[live |-> l, outcome |-> outcome,
                                       persisted |-> FALSE]>>
                               ELSE @]
    /\ UNCHANGED <<trackervars, dl, run, lookup>>

\* the end of main of a process: if something changed, write_data up to the
\* first half of Path.write_bytes, open(path, "wb"), which leaves the file of
\* the course with no bytes; if nothing changed the run is over
RaceOpen(p) ==
    /\ race.procs[p].pc = "processed"
    /\ LET proc == race.procs[p]
       IN  race' = IF should_write(proc.changed)
                   THEN [race EXCEPT
                           !.procs[p] = [proc EXCEPT !.pc = "writing"],
                           !.store = DictRemove(@, RaceCourse),
                           !.file = "empty"]
                   ELSE [race EXCEPT
                           !.procs[p] = [proc EXCEPT !.pc = "done"],
                           !.last = <<[live |-> proc.live,
                                       outcome |-> proc.outcome,
                                       persisted |-> FALSE]>>]
    /\ UNCHANGED <<trackervars, dl, run, lookup>>

\* the second half of Path.write_bytes: the encrypted bytes go to the start
\* of the file, and the file is closed. Bytes another process wrote there
\* since this process opened the file stay behind the new ones where the new
\* ones are fewer (covers = FALSE): the file then decrypts no more. The same
\* data encrypts to the same number of bytes
RaceWrite(p, covers) ==
    /\ race.procs[p].pc = "writing"
    /\ LET proc == race.procs[p]
           whole == \/ race.file = "empty"
                    \/ /\ race.file = "whole"
                       /\ DictGet(race.store, RaceCourse)
                             = DictGet(proc.data, RaceCourse)
                    \/ covers
       IN  race' = [race EXCEPT
                      !.procs[p] = [proc EXCEPT !.pc = "done"],
                      !.store = IF whole THEN write_data(@, proc.data)
                                ELSE DictRemove(@, RaceCourse),
                      !.file = IF whole THEN "whole" ELSE "torn",
                      !.written = @ \cup AddedRuns(proc),
                      !.last = <<[live |-> proc.live,
                                  outcome |-> proc.outcome,
                                  persisted |-> whole]>>]
    /\ UNCHANGED <<trackervars, dl, run, lookup>>

NextRace ==
    \E p \in Processes :
        \/ RaceRead(p)
        \/ \E l \in RaceLiveLists : \E slack_ok \in BOOLEAN :
              RaceProcess(p, l, slack_ok)
        \/ RaceOpen(p)
        \/ \E covers \in BOOLEAN : RaceWrite(p, covers)

SpecRace == Init /\ [][NextRace]_vars

\* ----------------------------------------------- max_int_num on its own

MaxKeyNumber == 11
MaxKeyWrites == 2

\* the sets of keys a run log or a history can have: decimal strings of
\* positive integers
KeySets == SUBSET {str(i) : i \in 1..MaxKeyNumber}

\* an aggregate with the given run indices: the run log, and the history of
\* one submission that was a draft at every index but the newest, where it is
\* finalized
KeyAggregate(keys) ==
    [total |-> 1, finalized |-> 1, drafts |-> 0, unclaimed |-> 0,
     runs |-> [k \in keys |-> int(k)],
     submissions |->
        [sid \in {str(1)} |->
            [k \in keys |->
                IF \A j \in keys : int(j) <= int(k)
                THEN [status |-> "finalized", grader |-> "a"]
                ELSE [status |-> "draft", grader |-> "a"]]]]

InitLookup ==
    /\ TrackerIdle
    /\ dl = DeadlineIdle
    /\ run = RunIdle
    /\ race = RaceIdle
    /\ lookup \in {[LookupIdle EXCEPT !.keys = keys] : keys \in KeySets}

\* max_int_num on the keys, and its two uses: the run index of the next call
\* and the last status of the submission
ApplyMaxIntNum ==
    /\ ~ lookup.applied
    /\ lookup' = [lookup EXCEPT
                    !.applied = TRUE,
                    !.max = max_int_num(lookup.keys, 0),
                    !.index = run_index(Some(KeyAggregate(lookup.keys))),
                    !.last = get_last_status(
                                 KeyAggregate(lookup.keys).submissions, str(1))]
    /\ UNCHANGED <<trackervars, dl, run, race>>

\* the call writes under its run index: runs[index] = timestamp_key
WriteAtIndex ==
    /\ lookup.applied
    /\ int(lookup.index) <= MaxKeyNumber
    /\ lookup.writes < MaxKeyWrites
    /\ lookup' = [LookupIdle EXCEPT !.keys = lookup.keys \cup {lookup.index},
                                    !.writes = lookup.writes + 1]
    /\ UNCHANGED <<trackervars, dl, run, race>>

NextLookup == ApplyMaxIntNum \/ WriteAtIndex

SpecLookup == InitLookup /\ [][NextLookup]_vars

\* ------------------------------------------------- vocabulary of the claims

\* the last call seen from outside
Called == ncalls >= 1
HadCache == prior # NoCache
PriorSubmissions == IF HadCache THEN Val(prior).submissions ELSE <<>>
PriorRuns == IF HadCache THEN Val(prior).runs ELSE <<>>
NewSubmissions == result.data.submissions
NewRuns == result.data.runs

\* the call before the last one ended in the message builder's exception, so
\* its aggregate did not reach the last call; no call before the last one did
PrevRaised == (ncalls - 1) \in raised
NoneRaisedBefore == raised \subseteq {ncalls}

\* ids (stringified) of a live list
IdsOf(list) == {str(list[i].id) : i \in 1..Len(list)}

\* the live submission with the given stringified id
LiveOf(list, sid) == list[CHOOSE i \in 1..Len(list) : str(list[i].id) = sid]

\* the status record the call computes for a known submission
DELETED == [status |-> "deleted", grader |-> None]
CurrentRecord(sid) ==
    IF sid \in IdsOf(live)
    THEN LET sub == LiveOf(live, sid)
         IN  [status |-> IF sub.isFinalized THEN "finalized"
                         ELSE IF sub.grader = None THEN "unclaimed"
                         ELSE "draft",
              grader |-> sub.grader]
    ELSE DELETED

\* the numerically highest key of a non-empty history or run log
NumericMaxKey(keys) == CHOOSE k \in keys : \A j \in keys : int(j) <= int(k)

\* the record stored at the numerically highest run index, else the sentinel
LastRecord(submissions, sid) ==
    IF sid \in DOMAIN submissions /\ DOMAIN submissions[sid] # {}
    THEN submissions[sid][NumericMaxKey(DOMAIN submissions[sid])]
    ELSE [status |-> "unknown", grader |-> "unknown"]

\* the pairs <<k1, k2>> of keys of a history where the entry at k2 follows
\* the entry at k1
Earlier(history, k2) == {k \in DOMAIN history : int(k) < int(k2)}
ConsecutivePairs(history) ==
    {<<NumericMaxKey(Earlier(history, k2)), k2>> :
        k2 \in {k \in DOMAIN history : Earlier(history, k) # {}}}

\* every run index present in an aggregate's runs and histories
IndicesOf(runs, submissions) ==
    DOMAIN runs \cup UNION {DOMAIN submissions[sid] : sid \in DOMAIN submissions}

\* ---------------------------------------------------------------- C1

\* C1: idempotence. A call fed the aggregate returned by the preceding call
\* (which therefore did not end in the builder's exception)
\* and the same live submissions returns changed = false, saves no status and
\* leaves runs and submissions equal to the input ones.
C1_Idempotent ==
    (ncalls >= 2 /\ ~ PrevRaised /\ live = prev_live) =>
        /\ result.changed = FALSE
        /\ result.saved = {}
        /\ NewRuns = PriorRuns
        /\ NewSubmissions = PriorSubmissions

\* a second call on the same two live submissions, one of them finalized
C1_Witness ==
    /\ ncalls >= 2
    /\ ~ PrevRaised
    /\ live = prev_live
    /\ Len(live) = 2
    /\ result.data.finalized = 1
    /\ result.changed = FALSE
    /\ DOMAIN NewRuns # {}

\* ---------------------------------------------------------------- C2

\* C2: deletion exactly once. A submission of the prior history that is absent
\* from the live list gets a {deleted, None} entry in the first call in which
\* it is absent and no entry in later calls while it stays absent: in a call
\* fed the output of the call before it, the entry is written iff that call
\* still saw the submission; in every call, it is written iff the fed history
\* does not already end in deleted; no history holds two consecutive deleted
\* entries.
C2_DeletedOnce ==
    /\ Called =>
          \A sid \in DOMAIN PriorSubmissions \ IdsOf(live) :
              IF LastRecord(PriorSubmissions, sid) = DELETED
              THEN /\ sid \notin result.saved
                   /\ NewSubmissions[sid] = PriorSubmissions[sid]
              ELSE /\ sid \in result.saved
                   /\ NewSubmissions[sid][result.index] = DELETED
    /\ (ncalls >= 2 /\ ~ PrevRaised) =>
          \A sid \in DOMAIN PriorSubmissions \ IdsOf(live) :
              /\ sid \in IdsOf(prev_live) =>
                    /\ sid \in result.saved
                    /\ NewSubmissions[sid][result.index] = DELETED
              /\ sid \notin IdsOf(prev_live) =>
                    /\ sid \notin result.saved
                    /\ NewSubmissions[sid] = PriorSubmissions[sid]
    /\ Called =>
          \A sid \in DOMAIN NewSubmissions :
              \A pair \in ConsecutivePairs(NewSubmissions[sid]) :
                  ~ (/\ NewSubmissions[sid][pair[1]] = DELETED
                     /\ NewSubmissions[sid][pair[2]] = DELETED)

\* a submission seen at call 1, absent at calls 2 and 3: one deleted entry,
\* written at call 2
C2_Witness ==
    /\ ncalls = 3
    /\ \E sid \in DOMAIN NewSubmissions :
          /\ sid \notin IdsOf(live)
          /\ sid \notin IdsOf(prev_live)
          /\ sid \notin result.saved
          /\ DOMAIN NewSubmissions[sid] = {str(1), str(2)}
          /\ NewSubmissions[sid][str(2)] = DELETED

\* ---------------------------------------------------------------- C3

Notified == notify # "none"

\* C3: notification gating. No progress notification goes out in a run whose
\* live pass has total = 0 or finalized = 0; one goes out when the data
\* changed and total > 0 and finalized > 0.
C3_NotificationGating ==
    Called =>
        /\ (result.data.total = 0 \/ result.data.finalized = 0) => ~ Notified
        /\ (result.changed /\ result.data.total > 0
               /\ result.data.finalized > 0) => Notified

\* ---------------------------------------------------------------- C4

CountsDiffer ==
    /\ HadCache
    /\ \/ Val(prior).total # result.data.total
       \/ Val(prior).finalized # result.data.finalized
       \/ Val(prior).drafts # result.data.drafts
       \/ Val(prior).unclaimed # result.data.unclaimed

\* C4: changed is true exactly when no prior aggregate was supplied, or a
\* history entry was written in this call, or one of the four counts differs
\* from the prior aggregate's stored count.
C4_ChangedFlag ==
    Called =>
        (result.changed <=> (~ HadCache \/ result.saved # {} \/ CountsDiffer))

\* ---------------------------------------------------------------- C5

\* C5: a call uses the run index max(keys of the prior run log) + 1, or 1
\* without prior run log; every history entry written in the call is written
\* under this index, and the index is greater than every run index already in
\* the prior runs and histories.
C5_RunIndex ==
    Called =>
        /\ result.index =
              IF DOMAIN PriorRuns = {} THEN str(1)
              ELSE str(int(NumericMaxKey(DOMAIN PriorRuns)) + 1)
        /\ \A sid \in DOMAIN NewSubmissions :
              LET old == IF sid \in DOMAIN PriorSubmissions
                         THEN DOMAIN PriorSubmissions[sid] ELSE {}
                  new == DOMAIN NewSubmissions[sid]
              IN  /\ new \ old \subseteq {result.index}
                  /\ sid \in result.saved => result.index \in new \ old
        /\ \A k \in IndicesOf(PriorRuns, PriorSubmissions) :
              int(k) < int(result.index)

\* calls 1 (write), 2 (no write), 3 (a submission disappears): the deletion
\* is recorded under index 2 and runs has the keys 1 and 2
C5_Witness ==
    /\ ncalls = 3
    /\ DOMAIN NewRuns = {str(1), str(2)}
    /\ NewRuns[str(1)] = 1
    /\ NewRuns[str(2)] = 3
    /\ result.index = str(2)
    /\ \E sid \in result.saved :
          /\ sid \notin IdsOf(live)
          /\ NewSubmissions[sid][str(2)] = DELETED

\* ---------------------------------------------------------------- C6

\* C6 as stated: the i-th call uses run index i, the index being reserved on
\* every call.
C6_IndexIsCallNumber == Called => result.index = str(ncalls)

\* the calls before the last one that saved a status
WritesBefore == IF result.saved # {} THEN nwrites - 1 ELSE nwrites

\* C6 amended: with every call fed the output of the call before it, the i-th
\* call uses run index 1 + the number of earlier calls that wrote a history
\* entry; the index advances only past a call that
\* wrote, so the indices of the writing calls are 1, 2, ... without reuse and
\* a call after a call without write uses that call's index again.
C6_IndexCountsWrites ==
    (Called /\ NoneRaisedBefore) =>
        /\ int(result.index) = WritesBefore + 1
        /\ int(result.index) <= ncalls
        /\ result.saved # {} => int(result.index) = nwrites

\* a third call that uses index 2 because the second call wrote nothing
C6_Witness ==
    /\ ncalls = 3
    /\ NoneRaisedBefore
    /\ nwrites = 2
    /\ result.saved # {}
    /\ result.index = str(2)
    /\ NewRuns[str(2)] = 3

\* ---------------------------------------------------------------- C7

\* C7: append-only. Every (submission id, run index) entry and every runs
\* entry of the prior aggregate is present with the same value in the
\* returned aggregate.
C7_AppendOnly ==
    Called =>
        /\ \A sid \in DOMAIN PriorSubmissions :
              /\ sid \in DOMAIN NewSubmissions
              /\ \A k \in DOMAIN PriorSubmissions[sid] :
                    /\ k \in DOMAIN NewSubmissions[sid]
                    /\ NewSubmissions[sid][k] = PriorSubmissions[sid][k]
        /\ \A k \in DOMAIN PriorRuns :
              /\ k \in DOMAIN NewRuns
              /\ NewRuns[k] = PriorRuns[k]

\* a call that appends to a history of two entries
C7_Witness ==
    \E sid \in result.saved :
        /\ sid \in DOMAIN PriorSubmissions
        /\ Cardinality(DOMAIN PriorSubmissions[sid]) = 2
        /\ Cardinality(DOMAIN NewSubmissions[sid]) = 3

\* ---------------------------------------------------------------- C8

\* the submissions a call looks at: the live ones and those of the history
KnownIds == IdsOf(live) \cup DOMAIN PriorSubmissions

\* C8: a call writes a history entry for a submission iff its current status
\* record differs from the record at its numerically highest run index (the
\* unknown sentinel without history), and the entry is the current record; no
\* history holds two equal records at consecutive entries.
C8_WriteIffDiffers ==
    Called =>
        /\ \A sid \in KnownIds :
              LET current == CurrentRecord(sid)
              IN  /\ sid \in result.saved <=>
                        current # LastRecord(PriorSubmissions, sid)
                  /\ sid \in result.saved =>
                        NewSubmissions[sid][result.index] = current
                  /\ sid \notin result.saved =>
                        /\ sid \in DOMAIN PriorSubmissions
                        /\ NewSubmissions[sid] = PriorSubmissions[sid]
        /\ \A sid \in DOMAIN NewSubmissions :
              \A pair \in ConsecutivePairs(NewSubmissions[sid]) :
                  NewSubmissions[sid][pair[1]] # NewSubmissions[sid][pair[2]]

\* a call that writes one submission because only its grader changed and
\* leaves the other, unchanged one alone
C8_Witness ==
    /\ Len(live) = 2
    /\ \E sid \in result.saved :
          /\ sid \in DOMAIN PriorSubmissions
          /\ LastRecord(PriorSubmissions, sid).status = CurrentRecord(sid).status
          /\ LastRecord(PriorSubmissions, sid).grader # CurrentRecord(sid).grader
    /\ \E sid \in IdsOf(live) : sid \notin result.saved

\* ---------------------------------------------------------------- C9

\* C9: run log consistency. A call adds runs[k] = timestamp label for its run
\* index k iff it wrote a history entry at k; every run index used in a
\* history is a key of runs and every key of runs is used in some history.
C9_RunLogConsistent ==
    Called =>
        /\ result.saved # {} =>
              /\ DOMAIN NewRuns = DOMAIN PriorRuns \cup {result.index}
              /\ result.index \notin DOMAIN PriorRuns
              /\ NewRuns[result.index] = ncalls
        /\ result.saved = {} => NewRuns = PriorRuns
        /\ \A sid \in DOMAIN NewSubmissions :
              DOMAIN NewSubmissions[sid] \subseteq DOMAIN NewRuns
        /\ \A k \in DOMAIN NewRuns :
              \E sid \in DOMAIN NewSubmissions : k \in DOMAIN NewSubmissions[sid]

\* a call without write after a call that wrote: the run log keeps its one key
C9_Witness ==
    /\ ncalls = 2
    /\ result.saved = {}
    /\ Len(live) > 0
    /\ DOMAIN NewRuns = {str(1)}
    /\ NewRuns[str(1)] = 1

\* ---------------------------------------------------------------- C10

\* the live submissions of a class
LiveCount(P(_)) == Cardinality({i \in 1..Len(live) : P(live[i])})
IsFinalizedSub(sub) == sub.isFinalized
IsDraftSub(sub) == ~ sub.isFinalized /\ sub.grader # None
IsUnclaimedSub(sub) == ~ sub.isFinalized /\ sub.grader = None

\* C10: the counts come from the live pass only. total is the number of live
\* submissions, finalized / drafts / unclaimed the numbers of live submissions
\* that are finalized / not finalized with a grader / not finalized without
\* grader, so total = finalized + drafts + unclaimed; deleted submissions are
\* counted nowhere.
C10_CountsFromLive ==
    Called =>
        /\ result.data.total = Len(live)
        /\ result.data.finalized = LiveCount(IsFinalizedSub)
        /\ result.data.drafts = LiveCount(IsDraftSub)
        /\ result.data.unclaimed = LiveCount(IsUnclaimedSub)
        /\ result.data.total = result.data.finalized + result.data.drafts
                                  + result.data.unclaimed

\* one live finalized submission without grader next to a deleted one
C10_Witness ==
    /\ Len(live) = 1
    /\ live[1].isFinalized
    /\ live[1].grader = None
    /\ result.data.total = 1
    /\ \E sid \in DOMAIN NewSubmissions :
          LastRecord(NewSubmissions, sid) = DELETED

\* ---------------------------------------------------------------- C11

DeadlineRan == dl.nruns >= 1

\* C11: deadline message exactly once. A run sends the deadline message iff
\* the deadline has been crossed and the stored sent_deadline_message is
\* null; a successful send stamps sent_deadline_message, marks the course
\* changed and is persisted; later runs carry the stamp over and send no
\* second deadline message; after a build or delivery failure the stamp stays
\* null.
C11_DeadlineOnce ==
    DeadlineRan =>
        /\ dl.last.attempted <=>
              (dl.last.at >= dl.deadline /\ dl.last.before = NoStamp)
        /\ dl.last.sent =>
              /\ dl.last.stamp = Some(dl.last.at)
              /\ dl.last.changed
              /\ dl.last.persisted
              /\ dl.stored = dl.last.stamp
        /\ dl.last.before # NoStamp =>
              /\ ~ dl.last.attempted
              /\ dl.stored = dl.last.before
        /\ dl.last.error => dl.stored = NoStamp
        /\ dl.nsent <= 1

\* ---------------------------------------------------------------- C17

\* C17: the passed_deadline flag of an assignment with a deadline is true
\* exactly when the current time is at or after the deadline.
C17_PassedDeadline ==
    DeadlineRan => (dl.last.passed <=> dl.last.at >= dl.deadline)

\* ---------------------------------------------------------------- C15

\* C15: graders_finalized is exactly the set of graders of the live
\* submissions that are finalized now and whose last recorded status before
\* the call is not finalized; a submission already recorded as finalized
\* contributes no grader, also when its grader changed.
C15_GradersFinalized ==
    Called =>
        result.data.graders_finalized =
            {live[i].grader : i \in
                {j \in 1..Len(live) :
                    /\ live[j].isFinalized
                    /\ LastRecord(PriorSubmissions, str(live[j].id)).status
                          # "finalized"}}

\* a finalized submission passes from grader a to grader b while the other
\* submission is finalized for the first time by a
C15_Witness ==
    /\ ncalls = 2
    /\ Len(live) = 2
    /\ live[1].isFinalized /\ live[1].grader = "b"
    /\ LastRecord(PriorSubmissions, str(live[1].id)) =
          [status |-> "finalized", grader |-> "a"]
    /\ str(live[1].id) \in result.saved
    /\ live[2].isFinalized /\ live[2].grader = "a"
    /\ result.data.graders_finalized = {"a"}

\* ------------------------------------------------- the run seen from outside

\* the positions of the run's effects of the given kinds
At(kinds) == {i \in 1..Len(run.events) : run.events[i].e \in kinds}

\* the run tracked an assignment of the course and found it changed
CourseChanged(c) ==
    \E i \in At({"track"}) : run.events[i].c = c /\ run.events[i].x = "changed"

\* the run wrote the snapshot file of the course
Written(c) == \E i \in At({"write"}) : run.events[i].c = c

\* the run looked the course up; it went through the assignment
LookedUp(c) == \E i \in At({"lookup"}) : run.events[i].c = c
Found(c) ==
    \E i \in At({"lookup"}) : run.events[i].c = c /\ run.events[i].x = "found"
Iterated(c, a) ==
    \E i \in At({"iter"}) : run.events[i].c = c /\ run.events[i].a = a

\* C12: when a run ends, a course file was written only if an assignment of
\* that same course changed in the run
C12_SelectivePersistence ==
    run.pc = "done" => \A c \in CourseSet : Written(c) => CourseChanged(c)

\* a course not found, an assignment missing or a Slack delivery failed
PerItemFailure == At({"error"}) # {}

\* every configured course was looked up and every assignment of every course
\* found was gone through
AllProcessed ==
    \A c \in CourseSet :
        /\ LookedUp(c)
        /\ Found(c) => \A k \in 1..Len(Assignments[c]) :
                           Iterated(c, Assignments[c][k])

\* C13: a run with a per-item failure ends normally: all courses and
\* assignments were processed, each failure is one error of the error log,
\* and the snapshot was written if anything changed
C13_PerItemNonFatal ==
    (RunOver /\ PerItemFailure) =>
        /\ run.pc = "done"
        /\ AllProcessed
        /\ Len(run.logged) = Cardinality(At({"error"}))
        /\ (\E c \in CourseSet : CourseChanged(c))
              => \E c \in CourseSet : Written(c)

\* the run met a fatal condition: a secret missing, a credential invalid, the
\* config unreadable or invalid, or a snapshot file that does not decrypt
Fatal ==
    \/ run.env.unset # {}
    \/ ~ run.env.key
    \/ run.env.token = "invalid_auth"
    \/ run.env.config_file # "ok"
    \/ run.env.invalid_channels > 0
    \/ run.env.sources_raise
    \/ run.env.invalid_sources > 0
    \/ DOMAIN run.store \cap run.env.undecryptable # {}

\* the run met an infrastructure failure: an error of Slack that main or
\* _validate_slack_channels re-raises, or a DECRYPTION_KEY Fernet rejects
InfrastructureFailure ==
    \/ run.env.token = "error"
    \/ run.env.channels_raise
    \/ ~ run.env.fernet

FatalKinds == {"secret", "codepost_key", "slack_token", "config", "decrypt"}

\* C14: a run that met a fatal condition (a secret missing, a credential
\* invalid, a config that cannot be read or validated, a snapshot file that
\* does not decrypt) and no infrastructure failure saved its errors and
\* returned: it looked up no course, fetched and tracked nothing, sent no
\* notification, wrote no snapshot and kept no course's cache
C14_FatalAborts ==
    (run.n >= 1 /\ run.pc # "done" /\ Fatal /\ ~ InfrastructureFailure) =>
        /\ run.pc = "aborted"
        /\ run.logged # <<>>
        /\ \A k \in 1..Len(run.logged) : run.logged[k].kind \in FatalKinds
        /\ At({"lookup", "iter", "fetch", "track", "notify", "write"}) = {}
        /\ run.data = <<>>

\* no aggregate of the course data has a graders_finalized field
Transient(course_data) ==
    \A a \in DOMAIN course_data :
        "graders_finalized" \notin DOMAIN course_data[a]

\* C16: the course data check_course_updates builds and returns, the data
\* process_courses hands to write_data, and the files written hold no
\* graders_finalized field
C16_GradersFinalizedTransient ==
    /\ Transient(run.cdata)
    /\ \A c \in DOMAIN run.data : Transient(run.data[c])
    /\ \A c \in DOMAIN run.store : Transient(run.store[c])

\* a course written with one assignment changed and one unchanged
C16_Witness ==
    /\ run.pc = "done"
    /\ Written("c1")
    /\ \E i, j \in At({"track"}) :
          /\ run.events[i].c = "c1" /\ run.events[i].x = "changed"
          /\ run.events[j].c = "c1" /\ run.events[j].x = "same"
    /\ DOMAIN run.store["c1"] = {"hw1", "hw2"}

\* C18: the snapshot is read once and before any course; tracker calls and
\* notifications come before the write; a course is written at most once,
\* after every course was processed, and not at all when nothing changed
C18_Ordering ==
    /\ Cardinality(At({"read"})) <= 1
    /\ \A i \in At({"lookup", "iter", "fetch", "track", "notify", "write"}) :
          \E j \in At({"read"}) : j < i
    /\ \A i \in At({"track", "notify"}) : \A j \in At({"write"}) : i < j
    /\ \A i, j \in At({"write"}) : run.events[i].c = run.events[j].c => i = j
    /\ \A j \in At({"write"}) : \A c \in CourseSet :
          \E i \in At({"lookup"}) : i < j /\ run.events[i].c = c
    /\ (\A c \in CourseSet : ~ CourseChanged(c)) => At({"write"}) = {}

\* a run that read, tracked, notified and then wrote both courses
C18_Witness ==
    /\ run.pc = "done"
    /\ At({"notify"}) # {}
    /\ Written("c1") /\ Written("c2")

\* C19: a failure of the message builder is one recorded error and the run
\* goes on to its end
C19_BuildFailureNonFatal ==
    At({"build"}) # {} =>
        /\ run.pc # "crashed"
        /\ \E k \in 1..Len(run.errors \o run.cerrors) :
              (run.errors \o run.cerrors)[k].kind = "build"

\* the course data as check_course_updates holds or returned it, and as the
\* snapshot had it
CourseData(c) ==
    IF run.pc \in {"assignments", "crashed"} /\ run.ci \in 1..Len(Courses)
       /\ Courses[run.ci] = c
    THEN run.cdata
    ELSE IF c \in DOMAIN run.data THEN run.data[c]
    ELSE <<>>
CourseCache(c) == IF c \in DOMAIN run.store THEN run.store[c] ELSE <<>>

\* C20: an assignment out of its date range is not fetched, not tracked, not
\* notified, leaves no error, does not mark the course changed, and keeps
\* its cached aggregate
C20_SkippedEntirely ==
    \A i \in At({"iter"}) :
        run.events[i].x = "out_of_range" =>
            LET c == run.events[i].c
                a == run.events[i].a
            IN  /\ \A j \in At({"fetch", "track", "notify", "error", "build"}) :
                      ~ (run.events[j].c = c /\ run.events[j].a = a)
                /\ (run.pc = "assignments" /\ Courses[run.ci] = c
                    /\ run.cchanged) => CourseChanged(c)
                /\ DictGet(CourseData(c), a) = DictGet(CourseCache(c), a)

\* an assignment with a cached aggregate was skipped in a run that wrote
C20_Witness ==
    /\ run.pc = "done"
    /\ At({"write"}) # {}
    /\ \E i \in At({"iter"}) :
          /\ run.events[i].x = "out_of_range"
          /\ run.events[i].c \in DOMAIN run.store
          /\ run.events[i].a \in DOMAIN run.store[run.events[i].c]

\* ---------------------------------------------------------------- C21

StoredStatuses == {"unclaimed", "draft", "finalized", "deleted"}

\* C21: the unknown sentinel is never stored. Every status record of the
\* returned aggregate has a status among unclaimed, draft, finalized and
\* deleted; for a live submission without history the last-status lookup gives
\* {unknown, unknown}, so the call writes its first record.
C21_UnknownNeverStored ==
    Called =>
        /\ \A sid \in DOMAIN NewSubmissions :
              \A k \in DOMAIN NewSubmissions[sid] :
                  /\ NewSubmissions[sid][k].status \in StoredStatuses
                  /\ NewSubmissions[sid][k] # NO_STATUS
        /\ \A sid \in IdsOf(live) \ DOMAIN PriorSubmissions :
              /\ get_last_status(PriorSubmissions, sid) = NO_STATUS
              /\ sid \in result.saved
              /\ DOMAIN NewSubmissions[sid] = {result.index}

\* an unclaimed submission first seen in a later call, next to a known one
C21_Witness ==
    /\ ncalls >= 2
    /\ DOMAIN PriorSubmissions # {}
    /\ \E sid \in IdsOf(live) \ DOMAIN PriorSubmissions :
          /\ CurrentRecord(sid).status = "unclaimed"
          /\ NewSubmissions[sid][result.index].status = "unclaimed"

\* ---------------------------------------------------------------- C24

\* C24: the run log has no gaps. The keys of runs of every returned aggregate
\* are the strings of 1..k for some k >= 0.
C24_RunLogNoGaps ==
    \E k \in 0..ncalls : DOMAIN NewRuns = {str(i) : i \in 1..k}

\* three writing calls: the run log has the keys 1, 2, 3
C24_Witness ==
    /\ ncalls = MaxHistoryCalls
    /\ DOMAIN NewRuns = {str(1), str(2), str(3)}

\* ---------------------------------------------------------------- C25

\* the submissions of the returned aggregate whose latest record has the status
LatestCount(status) ==
    Cardinality({sid \in DOMAIN NewSubmissions :
                    LastRecord(NewSubmissions, sid).status = status})

\* C25: history agrees with the live view. After a call the latest record of
\* each live submission is its current {status, grader}, the latest record of
\* each known submission absent from the live list is {deleted, None}, and
\* the finalized / drafts / unclaimed counts are the numbers of submissions
\* whose latest record has that status.
C25_HistoryAgreesWithLive ==
    Called =>
        /\ \A sid \in IdsOf(live) :
              LastRecord(NewSubmissions, sid) = CurrentRecord(sid)
        /\ \A sid \in DOMAIN NewSubmissions \ IdsOf(live) :
              LastRecord(NewSubmissions, sid) = DELETED
        /\ result.data.finalized = LatestCount("finalized")
        /\ result.data.drafts = LatestCount("draft")
        /\ result.data.unclaimed = LatestCount("unclaimed")

\* a submission with three records is live as a draft while the other known
\* submission is deleted
C25_Witness ==
    /\ ncalls = 3
    /\ Len(live) = 1
    /\ result.data.drafts = 1
    /\ Cardinality(DOMAIN NewSubmissions[str(live[1].id)]) = 3
    /\ \E sid \in DOMAIN NewSubmissions \ IdsOf(live) :
          LastRecord(NewSubmissions, sid) = DELETED

\* ---------------------------------------------------------------- C26

\* the run is in process_courses, or an exception ended it there
InProcessCourses ==
    \/ run.pc \in {"courses", "assignments"}
    \/ run.pc = "crashed" /\ run.ci >= 1

\* the histories of an assignment of the course data, none without entry
HistoriesOf(course_data, a) ==
    IF a \in DOMAIN course_data THEN course_data[a].submissions ELSE <<>>

\* the run wrote a history entry of the assignment
WroteHistory(c, a) ==
    HistoriesOf(CourseData(c), a) # HistoriesOf(CourseCache(c), a)

\* the run attempted the progress notification of the assignment
Attempted(c, a) ==
    \E i \in At({"build", "notify"}) :
        run.events[i].c = c /\ run.events[i].a = a

\* C26: the tracker returns changed = true iff the call wrote a history
\* entry, a progress notification is attempted for an assignment exactly in
\* the runs that wrote a history entry of it, and a run that completes
\* normally writes the snapshot iff it attempted a notification
C26_ChangedIffWrote ==
    /\ InProcessCourses =>
          /\ \A i \in At({"track"}) :
                run.events[i].x = "changed"
                    <=> WroteHistory(run.events[i].c, run.events[i].a)
          /\ \A c \in CourseSet : \A k \in 1..Len(Assignments[c]) :
                Attempted(c, Assignments[c][k])
                    <=> WroteHistory(c, Assignments[c][k])
    /\ run.pc = "done" =>
          (At({"write"}) # {} <=> At({"build", "notify"}) # {})

\* a second run that tracked one assignment without change and notified
\* another, then wrote
C26_Witness ==
    /\ run.pc = "done"
    /\ run.n = 2
    /\ At({"write"}) # {}
    /\ \E i, j \in At({"track"}) :
          /\ run.events[i].x = "same"
          /\ run.events[j].x = "changed"
          /\ Attempted(run.events[j].c, run.events[j].a)
          /\ ~ Attempted(run.events[i].c, run.events[i].a)

\* ---------------------------------------------------------------- C28

\* the run called the tracker for the assignment
Tracked(c, a) ==
    \E i \in At({"track"}) : run.events[i].c = c /\ run.events[i].a = a

\* the data of the one course of a snapshot of the racing runs
CourseOf(store) == IF RaceCourse \in DOMAIN store THEN store[RaceCourse] ELSE <<>>

\* the run log of an assignment of the course data
RunsOf(course_data, a) ==
    IF a \in DOMAIN course_data THEN course_data[a].runs ELSE <<>>

\* the index after a run log
NextIndex(runs) ==
    IF DOMAIN runs = {} THEN str(1)
    ELSE str(int(NumericMaxKey(DOMAIN runs)) + 1)

\* C28: assignments and courses are independent. Until the snapshot is
\* written, the entry of every assignment the run did not track (not reached
\* yet, skipped, missing from the live course, or of a course not found) is
\* its entry of the cache, the data of a course not found is its cache, and
\* an assignment that wrote history added the index that follows its own
\* run log
C28_Independent ==
    InProcessCourses =>
        \A c \in CourseSet :
            /\ ~ Found(c) => CourseData(c) = CourseCache(c)
            /\ DOMAIN CourseCache(c) \subseteq DOMAIN CourseData(c)
            /\ \A a \in DOMAIN CourseData(c) :
                  /\ ~ Tracked(c, a) =>
                        DictGet(CourseData(c), a) = DictGet(CourseCache(c), a)
                  /\ WroteHistory(c, a) =>
                        DOMAIN RunsOf(CourseData(c), a)
                            = DOMAIN RunsOf(CourseCache(c), a)
                              \cup {NextIndex(RunsOf(CourseCache(c), a))}

\* a second run in which hw1 of c1 writes under index 2 and hw2 under index 1,
\* while c2 is not found and keeps its cache
C28_Witness ==
    /\ run.pc = "courses"
    /\ run.ci > Len(Courses)
    /\ LookedUp("c2") /\ ~ Found("c2")
    /\ "c2" \in DOMAIN run.store
    /\ "c1" \in DOMAIN run.data
    /\ DOMAIN run.data["c1"] = {"hw1", "hw2"}
    /\ DOMAIN run.data["c1"]["hw1"].runs = {str(1), str(2)}
    /\ DOMAIN run.data["c1"]["hw2"].runs = {str(1)}
    /\ run.data["c1"]["hw2"].runs[str(1)] = 2

\* ---------------------------------------------------------------- C29

\* C29: max_int_num returns the numerically largest key of a non-empty set of
\* decimal strings, so the next run index is that number + 1 and the last
\* status is the record at that key; without keys the next index is 1 and the
\* lookup gives the sentinel
C29_NumericMax ==
    lookup.applied =>
        IF lookup.keys = {}
        THEN /\ lookup.index = str(1)
             /\ lookup.last = NO_STATUS
        ELSE /\ lookup.max = NumericMaxKey(lookup.keys)
             /\ \A k \in lookup.keys : int(k) <= int(lookup.max)
             /\ lookup.index = str(int(NumericMaxKey(lookup.keys)) + 1)
             /\ lookup.last = [status |-> "finalized", grader |-> "a"]

\* "10", written after "9", wins over "9" and the next index is "11"
C29_Witness ==
    /\ lookup.applied
    /\ lookup.writes >= 1
    /\ {str(9), str(10)} \subseteq lookup.keys
    /\ str(11) \notin lookup.keys
    /\ lookup.max = <<1, 0>>
    /\ lookup.index = <<1, 1>>

\* ---------------------------------------------------------------- C22

\* a run-log entry written by a run is no longer in the snapshot
LostEntry ==
    /\ race.file # "empty"
    /\ \E e \in race.written :
        LET runs == RunsOf(CourseOf(race.store), RaceAssignment)
        IN  ~ (e[1] \in DOMAIN runs /\ runs[e[1]] = e[2])

\* two runs read the same snapshot and posted a notification for the same
\* live submissions, and an entry written by one of them was replaced
Race == race.duplicate /\ LostEntry

\* C22: a notification posted twice for the same change of the same snapshot,
\* or a written run-log entry missing from the snapshot, happens only when two
\* runs were active at the same time
C22_RaceNeedsOverlap == (race.duplicate \/ LostEntry) => race.overlapped

\* both runs read the empty snapshot, both notified, and the second write
\* replaced the first
C22_Witness ==
    /\ Race
    /\ race.overlapped
    /\ \A p \in Processes :
          /\ race.procs[p].pc = "done"
          /\ race.procs[p].base = <<>>
          /\ race.procs[p].outcome = "sent"

\* ---------------------------------------------------------------- C27

\* C27: after a run that posted a notification (delivered or not) and wrote
\* the snapshot, the next run, started after it ended, that observes the same
\* live submissions attempts no notification
C27_NotifiedOnce ==
    ~ race.overlapped =>
        \A p \in Processes :
            LET proc == race.procs[p]
            IN  (/\ proc.pc \in {"processed", "writing", "done"}
                 /\ proc.prev # <<>>
                 /\ proc.prev[1].outcome \in {"sent", "failed"}
                 /\ proc.prev[1].persisted
                 /\ proc.prev[1].live = proc.live) => proc.outcome = "none"

\* the run after a failed delivery sees the same finalized submission and
\* stays silent
C27_Witness ==
    /\ ~ race.overlapped
    /\ \E p \in Processes :
          LET proc == race.procs[p]
          IN  /\ proc.pc = "done"
              /\ proc.prev # <<>>
              /\ proc.prev[1].outcome = "failed"
              /\ proc.prev[1].persisted
              /\ proc.prev[1].live = proc.live
              /\ Len(proc.live) = 1
              /\ proc.live[1].isFinalized
              /\ proc.outcome = "none"

\* ---------------------------------------------------------------- C23

\* the graders the configured ignore prefix matches
IgnoredGraders == {"b"}

\* a live submission the filter leaves out of the counts
IsIgnoredSub(sub) == ~ sub.isFinalized /\ sub.grader \in IgnoredGraders
IsCountedSub(sub) == ~ IsIgnoredSub(sub)
IsCountedDraftSub(sub) == IsDraftSub(sub) /\ ~ IsIgnoredSub(sub)

\* C23: a non-finalized live submission whose grader matches the ignore
\* prefix is left out of total and drafts, and its status record is still
\* written to its history
C23_IgnorePrefix ==
    Called =>
        /\ result.data.total = LiveCount(IsCountedSub)
        /\ result.data.drafts = LiveCount(IsCountedDraftSub)
        /\ \A sid \in IdsOf(live) :
              LastRecord(NewSubmissions, sid) = CurrentRecord(sid)

====
